---- MODULE Spec2Model ----
(***************************************************************************)
(* Model of fabric_shell's confirmation-gated executor and its command     *)
(* history (src/fabric_shell/utils/commands.py), of its text extractors    *)
(* (src/fabric_shell/utils/extractors.py) and of what the shell does with  *)
(* them (src/fabric_shell/core/shell.py).                                  *)
(*                                                                         *)
(* Strings that the code measures, slices or matches (stdout,              *)
(* output_preview, the texts given to the extractors and the commands they *)
(* return) are sequences of one-character strings; the commands and task   *)
(* descriptions handed to the gate by its callers are sequences of         *)
(* whitespace-separated words; dicts are records, and dict.get(k) is       *)
(* Get(d, k, default).                                                     *)
(***************************************************************************)
EXTENDS Integers, Sequences, FiniteSets, TLC

VARIABLES
    history,          \* CommandHistoryManager.history (in-memory list)
    disk,             \* the history file: [kind, entries]
    now,              \* the clock read by datetime.now()
    pc,               \* where the gate stands: idle, PRESENTED, ASK_GOAL, returned
    command,          \* execute_command_with_options argument
    task_description, \* execute_command_with_options argument
    shell_type,       \* execute_command_with_options argument
    ai_chat_func,     \* execute_command_with_options argument: "none" or "func"
    result,           \* the result dict of the current invocation
    rawResult,        \* the result dict of the last passthrough execution
    gates,            \* number of gate invocations started
    explains,         \* explain rounds of the current invocation
    explainShown,     \* what the last explain round printed
    answer,           \* what the operator typed last at the execute prompt
    goalAnswer,       \* what the operator typed at the post-hoc prompt
    runnerCalls,      \* execute_command calls of the current invocation
    ranCommand,       \* the command / shell handed to the last execute_command
    addCalls,         \* add_successful_command calls of the current invocation
    saved,            \* outcome of the last _save_history: none, ok, open_failed, write_failed
    presented,        \* the arguments as they were when the gate was entered
    history0,         \* history when the gate was entered
    disk0,            \* disk when the gate was entered
    origin,           \* what started the current invocation: fresh, alternative, corrected, passthrough
    followAnswer,     \* the operator's last answer to a Confirm.ask of the orchestrator
    simOut,           \* the last get_similar_commands / get_context_string call and its value
    exOut             \* the last call of a text extractor: its arguments and its value

vars == <<history, disk, now, pc, command, task_description, shell_type,
          ai_chat_func, result, rawResult, gates, explains, explainShown,
          answer, goalAnswer, runnerCalls, ranCommand, addCalls, saved,
          presented, history0, disk0, origin, followAnswer, simOut, exOut>>

----------------------------------------------------------------------------
(* Bounds and program constants *)

MaxGates == 2      \* gate invocations per run
MaxExplain == 1    \* explain rounds per invocation
MaxOver == 1       \* how far a runner output exceeds the preview length

HistoryCap == 100  \* self.history[-100:]
PreviewLen == 200  \* output[:200]

----------------------------------------------------------------------------
(* Strings *)

\* A string of n characters, no two neighbours equal.
MkText(n) == [i \in 1..n |-> IF i % 2 = 1 THEN "a" ELSE "b"]

Ellipsis == <<".", ".", ".">>

\* str.strip() on the error texts the runner can report.
Strip(s) == IF s \in {" ", "\n"} THEN "" ELSE s

\* dict.get(key, default)
Get(d, key, default) == IF key \in DOMAIN d THEN d[key] ELSE default


Min(a, b) == IF a <= b THEN a ELSE b

\* Python s[:n]
Prefix(s, n) == SubSeq(s, 1, Min(n, Len(s)))

\* Python s[-n:]
LastN(s, n) == IF Len(s) <= n THEN s ELSE SubSeq(s, Len(s) - n + 1, Len(s))

----------------------------------------------------------------------------
(* CommandHistoryManager *)

Missing == [kind |-> "missing", entries |-> <<>>]
Malformed == [kind |-> "malformed", entries |-> <<>>]

\* The file as a write that failed after open(..., 'w') leaves it: truncated,
\* with at most a part of the JSON text.
Partial == [kind |-> "partial", entries |-> <<>>]

\* json.dump of a list of entries: the file then holds a JSON array.  The
\* entries hold only strings and a boolean, which JSON carries unchanged.
JsonDump(entries) == [kind |-> "array", entries |-> entries]

\* _load_history: a missing file gives [], a file json.load rejects gives []
\* after the warning, and an array gives its entries.
LoadHistory(d) ==
    IF d.kind = "missing" THEN <<>>
    ELSE IF d.kind \in {"malformed", "partial"} THEN <<>>
    ELSE d.entries

\* DiskAfterLoad resetting a file that could not be parsed to an empty array.
MutDiskAfterLoadResets(d) ==
    IF d.kind \in {"malformed", "partial"} THEN JsonDump(<<>>) ELSE d

\* What _load_history does to the file: it opens it for reading only.
DiskAfterLoad(d) == d

\* SaveHistory truncating the file even when it cannot be opened for writing.
MutSaveHistoryAlwaysTruncates(h, d, outcome) ==
    IF outcome = "ok" THEN JsonDump(LastN(h, HistoryCap)) ELSE Partial

\* _save_history.  open(..., 'w') may fail (the file is left as it was), or
\* truncate the file and then fail while writing (the file is left partial),
\* or succeed; either failure is caught and logged.
SaveHistory(h, d, outcome) ==
    IF outcome = "open_failed" THEN d
    ELSE IF outcome = "write_failed" THEN Partial
    ELSE JsonDump(LastN(h, HistoryCap))

SaveOutcomes == {"ok", "open_failed", "write_failed"}

\* OutputPreview with the comparison off by one (>= for >).
MutOutputPreviewAtLimit(output) ==
    IF Len(output) >= PreviewLen THEN Prefix(output, PreviewLen) \o Ellipsis
    ELSE output

\* output[:200] + "..." if len(output) > 200 else output
OutputPreview(output) ==
    IF Len(output) > PreviewLen THEN Prefix(output, PreviewLen) \o Ellipsis
    ELSE output

\* NewEntry with the command and the task description swapped.
MutNewEntrySwapped(cmd, task, shell, output, ts) ==
    [timestamp |-> ts,
     command |-> task,
     task_description |-> cmd,
     shell_type |-> shell,
     output_preview |-> OutputPreview(output),
     success |-> TRUE]

\* The entry dict built by add_successful_command.
NewEntry(cmd, task, shell, output, ts) ==
    [timestamp |-> ts,
     command |-> cmd,
     task_description |-> task,
     shell_type |-> shell,
     output_preview |-> OutputPreview(output),
     success |-> TRUE]

\* self.history.append(entry)
AddSuccessfulCommand(h, cmd, task, shell, output, ts) ==
    Append(h, NewEntry(cmd, task, shell, output, ts))

----------------------------------------------------------------------------
(* CommandHistoryManager: similarity search and the context block *)

DefaultLimit == 5

\* str.lower() on one word.
Lower(w) ==
    CASE w = "List" -> "list"
      [] w = "FILES" -> "files"
      [] w = "Find" -> "find"
      [] OTHER -> w

\* set(text.lower().split()): a text is the sequence of its words.
Tokens(text) == {Lower(text[i]) : i \in 1..Len(text)}

\* A score overlap / len(union) as the fraction it is.  Float division is
\* correctly rounded, so two such quotients compare as the fractions do.
ScoreGreater(a, b) == a.num * b.den > b.num * a.den

\* The loop of get_similar_commands reaches an entry it cannot score:
\* entry['task_description'] raises KeyError.
SimilarRaises(h) ==
    \E i \in 1..Len(h) :
        /\ Get(h[i], "success", FALSE)
        /\ "task_description" \notin DOMAIN h[i]

\* scored_commands after the loop: (score, entry) for the successful entries
\* that share a word with the task, in the order of the history.
RECURSIVE ScoredCommands(_, _)
ScoredCommands(h, task_words) ==
    IF h = <<>> THEN <<>>
    ELSE LET entry == Head(h)
             rest == ScoredCommands(Tail(h), task_words)
         IN IF ~Get(entry, "success", FALSE) THEN rest
            ELSE LET entry_words == Tokens(entry.task_description)
                     overlap == Cardinality(task_words \cap entry_words)
                 IN IF overlap > 0
                    THEN <<[score |-> [num |-> overlap,
                                       den |-> Cardinality(task_words \cup entry_words)],
                            entry |-> entry]>> \o rest
                    ELSE rest

\* InsertByScore putting the new pair before the pairs of equal score (a
\* sort that is not stable).
RECURSIVE MutInsertByScoreBeforeEqual(_, _)
MutInsertByScoreBeforeEqual(sorted, x) ==
    IF sorted = <<>> THEN <<x>>
    ELSE IF ScoreGreater(Head(sorted).score, x.score)
         THEN <<Head(sorted)>> \o MutInsertByScoreBeforeEqual(Tail(sorted), x)
         ELSE <<x>> \o sorted

\* InsertByScore ordering by increasing score (reverse=True forgotten).
RECURSIVE MutInsertByScoreAscending(_, _)
MutInsertByScoreAscending(sorted, x) ==
    IF sorted = <<>> THEN <<x>>
    ELSE IF ScoreGreater(x.score, Head(sorted).score)
         THEN <<Head(sorted)>> \o MutInsertByScoreAscending(Tail(sorted), x)
         ELSE <<x>> \o sorted

\* One step of the stable sort by decreasing score: x goes behind every pair
\* whose score is at least its own.
RECURSIVE InsertByScore(_, _)
InsertByScore(sorted, x) ==
    IF sorted = <<>> THEN <<x>>
    ELSE IF ScoreGreater(x.score, Head(sorted).score)
         THEN <<x>> \o sorted
         ELSE <<Head(sorted)>> \o InsertByScore(Tail(sorted), x)

\* scored_commands.sort(key=lambda x: x[0], reverse=True): the sort is stable,
\* pairs of equal score keep the order they had.
RECURSIVE SortByScore(_)
SortByScore(scored) ==
    IF scored = <<>> THEN <<>>
    ELSE InsertByScore(SortByScore(SubSeq(scored, 1, Len(scored) - 1)),
                       scored[Len(scored)])

\* Python s[:n] for any integer n: a negative n counts from the end.
SliceTo(s, n) ==
    IF n >= 0 THEN SubSeq(s, 1, Min(n, Len(s)))
    ELSE SubSeq(s, 1, IF Len(s) + n > 0 THEN Len(s) + n ELSE 0)

\* get_similar_commands
GetSimilarCommands(h, task, limit) ==
    LET sorted == SortByScore(ScoredCommands(h, Tokens(task)))
        top == SliceTo(sorted, limit)
    IN [i \in 1..Len(top) |-> top[i].entry]

\* One line of the context block.
Line(kind, n, text) == [kind |-> kind, n |-> n, text |-> text]

\* The lines get_context_string writes for the i-th match.
EntryLines(i, entry) ==
    <<Line("task", i, entry.task_description),
      Line("command", i, entry.command),
      Line("shell", i, <<entry.shell_type>>)>>
    \o (IF Get(entry, "output_preview", <<>>) # <<>>
        THEN <<Line("result", i, entry.output_preview)>> ELSE <<>>)
    \o <<Line("blank", i, <<>>)>>

RECURSIVE AllEntryLines(_, _)
AllEntryLines(similar, i) ==
    IF i > Len(similar) THEN <<>>
    ELSE EntryLines(i, similar[i]) \o AllEntryLines(similar, i + 1)

\* GetContextString listing the first match only.
MutGetContextStringFirstOnly(h, task) ==
    LET similar == GetSimilarCommands(h, task, DefaultLimit)
    IN IF similar = <<>> THEN <<>>
       ELSE <<Line("header", 0, <<>>), Line("intro", 0, <<>>)>>
            \o EntryLines(1, similar[1])
            \o <<Line("footer", 0, <<>>)>>

\* get_context_string: the text as the sequence of its lines, "" as <<>>.
GetContextString(h, task) ==
    LET similar == GetSimilarCommands(h, task, DefaultLimit)
    IN IF similar = <<>> THEN <<>>
       ELSE <<Line("header", 0, <<>>), Line("intro", 0, <<>>)>>
            \o AllEntryLines(similar, 1)
            \o <<Line("footer", 0, <<>>)>>

\* get_context_string reads entry['command'] and entry['shell_type'] of
\* every match.
ContextRaises(h, task) ==
    \/ SimilarRaises(h)
    \/ LET similar == GetSimilarCommands(h, task, DefaultLimit)
       IN \E i \in 1..Len(similar) :
             {"command", "shell_type"} \ DOMAIN similar[i] # {}

----------------------------------------------------------------------------
(* CommandExecutor: the shell runner *)

\* Python's None, and the truth value of a string.
NoneVal == "None"
Falsy(x) == x \in {NoneVal, ""}

\* The class-name entries of the fixes table, applied to one word.
FixClassName(w) ==
    CASE w = "CIMOperatingSystem" -> "CIM_OperatingSystem"
      [] w = "CIMProcess" -> "CIM_Process"
      [] w = "CIMService" -> "CIM_Service"
      [] w = "CIMDisk" -> "CIM_LogicalDisk"
      [] w = "CIMProcessor" -> "CIM_Processor"
      [] w = "CIMMemory" -> "CIM_PhysicalMemory"
      [] OTHER -> w

\* str.replace(old, new) on a sequence of words.
RECURSIVE ReplaceWords(_, _, _)
ReplaceWords(s, old, new) ==
    IF Len(s) < Len(old) THEN s
    ELSE IF SubSeq(s, 1, Len(old)) = old
         THEN new \o ReplaceWords(SubSeq(s, Len(old) + 1, Len(s)), old, new)
         ELSE <<Head(s)>> \o ReplaceWords(Tail(s), old, new)

\* _fix_powershell_command: the fixes table applied entry by entry, in order.
FixPowershellCommand(cmd) ==
    LET c0 == [i \in 1..Len(cmd) |-> FixClassName(cmd[i])]
        c1 == ReplaceWords(c0, <<"Get-CimInstance", "-ClassName", "CIM_OperatingSystem">>,
                           <<"Get-ComputerInfo">>)
        c2 == ReplaceWords(c1, <<"Get-CimInstance", "-ClassName", "CIM_Process">>,
                           <<"Get-Process">>)
        c3 == ReplaceWords(c2, <<"Get-CimInstance", "-ClassName", "CIM_Service">>,
                           <<"Get-Service">>)
        c4 == ReplaceWords(c3, <<"Get-CimInstance", "-ClassName", "CIM_LogicalDisk">>,
                           <<"Get-WmiObject", "-Class", "Win32_LogicalDisk">>)
    IN c4

ProfileDependentWords ==
    {"Get-CimInstance", "Import-Module", "Get-ADUser", "Get-ExchangeServer",
     "Connect-AzAccount", "New-PSSession", "Enter-PSSession", "Invoke-Command"}

\* _should_use_profile_powershell
ShouldUseProfilePowershell(cmd) ==
    \E i \in 1..Len(cmd) : cmd[i] \in ProfileDependentWords

\* The command string execute_command hands to subprocess.run.
SpawnedCommand(cmd, language) ==
    LET shell == IF language = "" THEN "bash" ELSE language
    IN IF shell = "powershell" /\ ~ShouldUseProfilePowershell(cmd)
       THEN FixPowershellCommand(cmd)
       ELSE cmd

\* execute_command: the result dict for each way subprocess.run can end.
ExecuteCommand(cmd, language, outcome) ==
    LET shell == IF language = "" THEN "bash" ELSE language
    IN IF outcome.kind = "exit"
       THEN [success |-> outcome.returncode = 0,
             stdout |-> outcome.stdout,
             stderr |-> outcome.stderr,
             returncode |-> outcome.returncode,
             command |-> cmd,
             fixed_command |-> IF shell = "powershell"
                               THEN FixPowershellCommand(cmd) ELSE cmd]
       ELSE IF outcome.kind = "timeout"
       THEN [error |-> "Command timed out after 30 seconds", command |-> cmd]
       ELSE [error |-> outcome.msg, command |-> cmd]

\* execute_raw_command: the passthrough runner, no confirmation.
ExecuteRawCommand(cmd, outcome) ==
    IF outcome.kind = "exit"
    THEN [success |-> outcome.returncode = 0,
          stdout |-> outcome.stdout,
          stderr |-> outcome.stderr,
          returncode |-> outcome.returncode,
          command |-> cmd]
    ELSE IF outcome.kind = "timeout"
    THEN [error |-> "Command timed out after 30 seconds", command |-> cmd]
    ELSE [error |-> outcome.msg, command |-> cmd]

----------------------------------------------------------------------------
(* CommandExecutor: the prompts and show_result *)

\* Prompt.ask(choices=..., default=...): an empty line gives the default; a
\* line outside the (lower-case) choices is asked again, so only the choices
\* and the empty line come back, and .lower() leaves them as they are.
PromptAsk(input, default) == IF input = "" THEN default ELSE input

\* The execute prompt defaulting to yes.
MutExecuteDefaultYes == "y"

ExecuteChoices == {"y", "n", "e", "yes", "no", "explain"}
ExecuteDefault == "n"

GoalChoices == {"y", "n", "yes", "no"}
GoalDefault == "y"

\* IsYes taking every answer but "no" for a yes.
MutIsYesLoose(choice) == choice # "no"

IsExplain(choice) == choice \in {"e", "explain"}
IsYes(choice) == choice \in {"y", "yes"}

\* SetConfirmedFailure forgetting the flag.
MutSetConfirmedFailureDropped(r) == r

\* SetConfirmedFailure also turning success off.
MutSetConfirmedFailureResetsSuccess(r) ==
    [k \in DOMAIN r \cup {"user_confirmed_failure"} |->
        IF k = "user_confirmed_failure" THEN TRUE
        ELSE IF k = "success" THEN FALSE ELSE r[k]]

\* result with result['user_confirmed_failure'] = True
SetConfirmedFailure(r) ==
    [k \in DOMAIN r \cup {"user_confirmed_failure"} |->
        IF k = "user_confirmed_failure" THEN TRUE ELSE r[k]]

\* ShowResultAsks without the success test.
MutShowResultAsksOnFailure(r, ask_confirmation, task) ==
    /\ ~Get(r, "cancelled", FALSE)
    /\ ask_confirmation
    /\ task # <<>>

\* show_result reaches its Prompt.ask.
ShowResultAsks(r, ask_confirmation, task) ==
    /\ ~Get(r, "cancelled", FALSE)
    /\ Get(r, "success", FALSE)
    /\ ask_confirmation
    /\ task # <<>>

\* show_result: the result dict as it leaves it, and the error it returns.
\* input is the operator's line at the prompt, read only when it is asked.
ShowResult(r, ask_confirmation, task, input) ==
    IF Get(r, "cancelled", FALSE) THEN [result |-> r, error |-> NoneVal]
    ELSE IF Get(r, "success", FALSE)
    THEN IF ask_confirmation /\ task # <<>>
         THEN IF PromptAsk(input, GoalDefault) \in {"y", "yes"}
              THEN [result |-> r, error |-> NoneVal]
              ELSE [result |-> SetConfirmedFailure(r),
                    error |-> "User confirmed command didn't accomplish the goal"]
         ELSE [result |-> r, error |-> NoneVal]
    ELSE LET se == Get(r, "stderr", NoneVal)
             er == Get(r, "error", NoneVal)
             error == IF ~Falsy(se) THEN se
                      ELSE IF ~Falsy(er) THEN er ELSE "Unknown error"
         IN [result |-> r, error |-> Strip(error)]

\* ExplainCommand without the try around the ai_chat_func call.
MutExplainCommandUncaught(ai, responder) ==
    IF ai = "none" THEN "unavailable"
    ELSE IF responder = "raises" THEN "raised"
    ELSE "explanation"

\* _explain_command: what it prints.  responder is how ai_chat_func ends;
\* _chat_with_ai turns a failed model call into an error text, which is
\* rendered like any other explanation.
ExplainCommand(ai, responder) ==
    IF ai = "none" THEN "unavailable"
    ELSE IF responder = "raises" THEN "error"
    ELSE "explanation"

\* ShouldAdd without the task test.
MutShouldAddWithoutTask(r, error, task) ==
    /\ Get(r, "success", FALSE)
    /\ Falsy(error)
    /\ ~Get(r, "user_confirmed_failure", FALSE)

\* ShouldAdd looking at the process result alone, not at the operator's answer.
MutShouldAddIgnoringAnswer(r, error, task) ==
    /\ Get(r, "success", FALSE)
    /\ task # <<>>

\* The condition under which the gate calls add_successful_command.
ShouldAdd(r, error, task) ==
    /\ Get(r, "success", FALSE)
    /\ Falsy(error)
    /\ task # <<>>
    /\ ~Get(r, "user_confirmed_failure", FALSE)

----------------------------------------------------------------------------
(* Inputs *)

Commands == {<<"ls", "-la">>, <<"Get-WmiObject", "CIMProcess">>}

\* The calls of execute_command_with_options the run can make.
Invocations ==
    {[command |-> <<"Get-WmiObject", "CIMProcess">>,
      task_description |-> <<"list", "processes">>,
      shell_type |-> "powershell", ai_chat_func |-> "func"],
     [command |-> <<"ls", "-la">>, task_description |-> <<>>,
      shell_type |-> "bash", ai_chat_func |-> "none"],
     [command |-> <<"ls", "-la">>, task_description |-> <<>>,
      shell_type |-> "zsh", ai_chat_func |-> "func"]}

Responders == {"returns", "returns_error_text", "raises"}

\* What the operator can type at each prompt.
ExecuteInputs == ExecuteChoices \cup {""}
GoalInputs == GoalChoices \cup {""}

OutLens == {0} \cup (PreviewLen .. PreviewLen + MaxOver)
Outputs == {MkText(n) : n \in OutLens}

\* The ways subprocess.run can end.
RunnerOutcomes ==
    {[kind |-> "exit", returncode |-> 0, stdout |-> o, stderr |-> ""] : o \in Outputs}
    \cup {[kind |-> "exit", returncode |-> 1, stdout |-> <<>>, stderr |-> e] :
            e \in {"", "boom"}}
    \cup {[kind |-> "timeout"]}
    \cup {[kind |-> "exception", msg |-> m] : m \in {"", "No such file"}}

\* An entry an earlier session stored.
OldEntry(i) == NewEntry(<<"ls", "-la">>, <<"old", "task">>, "bash", <<>>, i)

\* The history file as earlier sessions can have left it.
InitSizes == {0, HistoryCap - 1, HistoryCap}
InitDisks ==
    {Missing, Malformed} \cup {JsonDump([i \in 1..n |-> OldEntry(i)]) : n \in InitSizes}

NoResult == [pending |-> TRUE]
NotAsked == "-"
NoArgs == [command |-> <<>>, task_description |-> <<>>, shell_type |-> ""]
NoCall == [op |-> "none"]

----------------------------------------------------------------------------
(* State machine *)

\* CommandExecutor.__init__ / CommandHistoryManager.__init__; call is the
\* extractor call that is pending, if any.
InitCalled(d, call) ==
    /\ disk = d
    /\ history = LoadHistory(disk)
    /\ now = Len(disk.entries) + 1
    /\ pc = "loaded"
    /\ command = <<>>
    /\ task_description = <<>>
    /\ shell_type = ""
    /\ ai_chat_func = "none"
    /\ result = NoResult
    /\ rawResult = NoResult
    /\ gates = 0
    /\ explains = 0
    /\ explainShown = "none"
    /\ answer = NotAsked
    /\ goalAnswer = NotAsked
    /\ runnerCalls = 0
    /\ ranCommand = <<>>
    /\ addCalls = 0
    /\ saved = "none"
    /\ presented = NoArgs
    /\ history0 = history
    /\ disk0 = disk
    /\ origin = "none"
    /\ followAnswer = NotAsked
    /\ simOut = NoCall
    /\ exOut = call

InitWith(d) == InitCalled(d, NoCall)

Init == \E d \in InitDisks : InitWith(d)

\* Entry of execute_command_with_options: the command is shown and the gate
\* waits at its first prompt.
EnterGate(cmd, task, shell, ai) ==
    /\ gates < MaxGates
    /\ gates' = gates + 1
    /\ pc' = "PRESENTED"
    /\ command' = cmd
    /\ task_description' = task
    /\ shell_type' = shell
    /\ ai_chat_func' = ai
    /\ result' = NoResult
    /\ rawResult' = NoResult
    /\ explains' = 0
    /\ explainShown' = "none"
    /\ answer' = NotAsked
    /\ goalAnswer' = NotAsked
    /\ runnerCalls' = 0
    /\ ranCommand' = <<>>
    /\ addCalls' = 0
    /\ saved' = "none"
    /\ presented' = [command |-> cmd, task_description |-> task, shell_type |-> shell]
    /\ history0' = history
    /\ disk0' = disk
    /\ UNCHANGED <<history, disk, now, simOut>>

\* execute_command_with_options is called with a freshly generated command.
Invoke(cmd, task, shell, ai) ==
    /\ pc = "idle"
    /\ origin' = "fresh"
    /\ followAnswer' = NotAsked
    /\ EnterGate(cmd, task, shell, ai)
    /\ UNCHANGED exOut

\* FinishGate without the final return: the while loop goes round again and
\* the command is presented once more.
MutFinishGateLoops(r, error, save) ==
    /\ IF ShouldAdd(r, error, task_description)
       THEN /\ history' = AddSuccessfulCommand(history, command, task_description,
                                               shell_type, Get(r, "stdout", <<>>), now)
            /\ now' = now + 1
            /\ disk' = SaveHistory(history', disk, save)
            /\ addCalls' = addCalls + 1
            /\ saved' = save
       ELSE UNCHANGED <<history, disk, now, addCalls, saved>>
    /\ result' = r
    /\ pc' = "PRESENTED"

\* Lines 137-149 of execute_command_with_options: the outcome handling after
\* show_result, add_successful_command and _save_history included.
FinishGate(r, error, save) ==
    /\ IF ShouldAdd(r, error, task_description)
       THEN /\ history' = AddSuccessfulCommand(history, command, task_description,
                                               shell_type, Get(r, "stdout", <<>>), now)
            /\ now' = now + 1
            /\ disk' = SaveHistory(history', disk, save)
            /\ addCalls' = addCalls + 1
            /\ saved' = save
       ELSE UNCHANGED <<history, disk, now, addCalls, saved>>
    /\ result' = r
    /\ pc' = "returned"

\* ChooseExplain without the continue: the loop body goes on to the else
\* branch and the gate returns cancelled.
MutChooseExplainFallsThrough(input, responder) ==
    /\ pc = "PRESENTED"
    /\ IsExplain(PromptAsk(input, ExecuteDefault))
    /\ explains < MaxExplain
    /\ answer' = input
    /\ explains' = explains + 1
    /\ explainShown' = "none"
    /\ result' = [cancelled |-> TRUE]
    /\ pc' = "returned"
    /\ UNCHANGED <<history, disk, now, command, task_description, shell_type,
                   ai_chat_func, rawResult, gates, goalAnswer, runnerCalls,
                   ranCommand, addCalls, saved, presented, history0, disk0,
                   origin, followAnswer, simOut, exOut>>

\* The operator answers "Execute command?" with e / explain: _explain_command
\* prints and the loop continues.
ChooseExplain(input, responder) ==
    /\ pc = "PRESENTED"
    /\ IsExplain(PromptAsk(input, ExecuteDefault))
    /\ explains < MaxExplain
    /\ answer' = input
    /\ explains' = explains + 1
    /\ explainShown' = ExplainCommand(ai_chat_func, responder)
    /\ UNCHANGED <<history, disk, now, pc, command, task_description, shell_type,
                   ai_chat_func, result, rawResult, gates, goalAnswer, runnerCalls,
                   ranCommand, addCalls, saved, presented, history0, disk0,
                   origin, followAnswer, simOut, exOut>>

\* The operator answers y / yes: execute_command runs and show_result shows
\* its result; on success with a task the gate waits at the second prompt,
\* otherwise it runs to its return.
ChooseExecute(input, outcome, save) ==
    /\ pc = "PRESENTED"
    /\ ~IsExplain(PromptAsk(input, ExecuteDefault))
    /\ IsYes(PromptAsk(input, ExecuteDefault))
    /\ answer' = input
    /\ runnerCalls' = runnerCalls + 1
    /\ ranCommand' = SpawnedCommand(command, shell_type)
    /\ explainShown' = "none"
    /\ LET r == ExecuteCommand(command, shell_type, outcome) IN
       IF ShowResultAsks(r, TRUE, task_description)
       THEN /\ pc' = "ASK_GOAL"
            /\ result' = r
            /\ UNCHANGED <<history, disk, now, addCalls, saved>>
       ELSE LET shown == ShowResult(r, TRUE, task_description, "") IN
            FinishGate(shown.result, shown.error, save)
    /\ UNCHANGED <<command, task_description, shell_type, ai_chat_func, rawResult,
                   gates, explains, goalAnswer, presented, history0, disk0,
                   origin, followAnswer, simOut, exOut>>

\* The operator answers n / no, or nothing (the default): the else branch.
ChooseCancel(input) ==
    /\ pc = "PRESENTED"
    /\ ~IsExplain(PromptAsk(input, ExecuteDefault))
    /\ ~IsYes(PromptAsk(input, ExecuteDefault))
    /\ answer' = input
    /\ explainShown' = "none"
    /\ result' = [cancelled |-> TRUE]
    /\ pc' = "returned"
    /\ UNCHANGED <<history, disk, now, command, task_description, shell_type,
                   ai_chat_func, rawResult, gates, explains, goalAnswer, runnerCalls,
                   ranCommand, addCalls, saved, presented, history0, disk0,
                   origin, followAnswer, simOut, exOut>>

\* The operator answers "Did this accomplish your goal?": the rest of
\* show_result and of execute_command_with_options.
GoalPrompt(input, save) ==
    /\ pc = "ASK_GOAL"
    /\ goalAnswer' = input
    /\ LET shown == ShowResult(result, TRUE, task_description, input) IN
       FinishGate(shown.result, shown.error, save)
    /\ UNCHANGED <<command, task_description, shell_type, ai_chat_func, rawResult,
                   gates, explains, explainShown, answer, runnerCalls, ranCommand,
                   presented, history0, disk0, origin, followAnswer, simOut, exOut>>

\* The caller is done with the result: the invocation's locals are gone and
\* the shell is back at its prompt.
BackToIdle ==
    /\ pc' = "idle"
    /\ command' = <<>>
    /\ task_description' = <<>>
    /\ shell_type' = ""
    /\ ai_chat_func' = "none"
    /\ result' = NoResult
    /\ explains' = 0
    /\ answer' = NotAsked
    /\ goalAnswer' = NotAsked
    /\ runnerCalls' = 0
    /\ ranCommand' = <<>>
    /\ addCalls' = 0
    /\ saved' = "none"
    /\ presented' = NoArgs
    /\ history0' = history
    /\ disk0' = disk
    /\ origin' = "none"
    /\ followAnswer' = NotAsked
    /\ UNCHANGED <<history, disk, now, rawResult, gates, explainShown, simOut, exOut>>

\* The caller takes the result and asks nothing more.
Return ==
    /\ pc = "returned"
    /\ BackToIdle

\* The program is started again: CommandHistoryManager.__init__ loads the
\* history file.
Restart ==
    /\ pc = "idle"
    /\ pc' = "loaded"
    /\ history' = LoadHistory(disk)
    /\ disk' = DiskAfterLoad(disk)
    /\ history0' = history'
    /\ rawResult' = NoResult
    /\ UNCHANGED <<now, command, task_description, shell_type, ai_chat_func, result,
                   gates, explains, explainShown, answer, goalAnswer, runnerCalls,
                   ranCommand, addCalls, saved, presented, disk0, origin, followAnswer, simOut, exOut>>

\* The constructor has returned and the shell shows its prompt.
Ready ==
    /\ pc = "loaded"
    /\ pc' = "idle"
    /\ disk0' = disk
    /\ UNCHANGED <<history, disk, now, command, task_description, shell_type,
                   ai_chat_func, result, rawResult, gates, explains, explainShown,
                   answer, goalAnswer, runnerCalls, ranCommand, addCalls, saved,
                   presented, history0, origin, followAnswer, simOut, exOut>>

\* _handle_unknown_command: execute_raw_command and show_result without
\* confirmation.
RawPassthrough(cmd, outcome) ==
    /\ pc = "idle"
    /\ pc' = "idle"
    /\ rawResult' = ShowResult(ExecuteRawCommand(cmd, outcome), FALSE, <<>>, "").result
    /\ UNCHANGED <<history, disk, now, command, task_description, shell_type,
                   ai_chat_func, result, gates, explains, explainShown, answer,
                   goalAnswer, runnerCalls, ranCommand, addCalls, saved, presented,
                   history0, disk0, origin, followAnswer, simOut, exOut>>

RawOutcomes ==
    {[kind |-> "exit", returncode |-> 0, stdout |-> MkText(1), stderr |-> ""],
     [kind |-> "exit", returncode |-> 1, stdout |-> <<>>, stderr |-> "boom"],
     [kind |-> "timeout"]}

Next ==
    \/ \E inv \in Invocations :
          Invoke(inv.command, inv.task_description, inv.shell_type, inv.ai_chat_func)
    \/ \E input \in ExecuteInputs, responder \in Responders :
          ChooseExplain(input, responder)
    \/ \E input \in ExecuteInputs, outcome \in RunnerOutcomes, save \in SaveOutcomes :
          ChooseExecute(input, outcome, save)
    \/ \E input \in ExecuteInputs : ChooseCancel(input)
    \/ \E input \in GoalInputs, save \in SaveOutcomes : GoalPrompt(input, save)
    \/ Return
    \/ Restart
    \/ Ready
    \/ \E cmd \in Commands, outcome \in RawOutcomes : RawPassthrough(cmd, outcome)

Spec == Init /\ [][Next]_vars

----------------------------------------------------------------------------
(* TextExtractor: texts are sequences of one-character strings *)

MaxLineLen == 200   \* len(line) > 200
MaxLineWords == 25  \* len(line.split()) > 25
MinCodeLen == 5     \* len(code.strip()) > 5

UpperLetters == <<"A", "B", "C", "D", "E", "F", "G", "H", "I", "J", "K", "L", "M", "N",
                  "O", "P", "Q", "R", "S", "T", "U", "V", "W", "X", "Y", "Z">>
LowerLetters == <<"a", "b", "c", "d", "e", "f", "g", "h", "i", "j", "k", "l", "m", "n",
                  "o", "p", "q", "r", "s", "t", "u", "v", "w", "x", "y", "z">>
Digits == <<"0", "1", "2", "3", "4", "5", "6", "7", "8", "9">>

\* \w of the re module, and \s
WordChars == {UpperLetters[i] : i \in 1..26} \cup {LowerLetters[i] : i \in 1..26}
             \cup {Digits[i] : i \in 1..10} \cup {"_"}
Whitespace == {" ", "\n", "\t"}

\* The character ` has no string literal of its own.
Backquote == "BACKQUOTE"

\* str.lower()
LowerChar(c) ==
    IF \E i \in 1..26 : UpperLetters[i] = c
    THEN LowerLetters[CHOOSE i \in 1..26 : UpperLetters[i] = c]
    ELSE c
LowerText(s) == [i \in 1..Len(s) |-> LowerChar(s[i])]

\* The least element of a non-empty set of positions.
Least(J) == CHOOSE j \in J : \A k \in J : j <= k

\* The first position from i on whose character is not in set, Len(s) + 1
\* when there is none: where a greedy [set]* that starts at i ends.
SkipWhile(s, i, set) ==
    LET J == {j \in i..Len(s) : s[j] \notin set}
    IN IF J = {} THEN Len(s) + 1 ELSE Least(J)

\* The first position from i on whose character is in set, Len(s) + 1 when
\* there is none: where a greedy [^set]* that starts at i ends.
SkipTo(s, i, set) ==
    LET J == {j \in i..Len(s) : s[j] \in set}
    IN IF J = {} THEN Len(s) + 1 ELSE Least(J)

\* p occurs in s at position i
MatchAt(s, i, p) == i >= 1 /\ i + Len(p) - 1 <= Len(s) /\ SubSeq(s, i, i + Len(p) - 1) = p

\* p in s, s.startswith(p), s.endswith(p)
Contains(s, p) == \E i \in 1..(Len(s) - Len(p) + 1) : MatchAt(s, i, p)
StartsWith(s, p) == MatchAt(s, 1, p)
EndsWith(s, p) == MatchAt(s, Len(s) - Len(p) + 1, p)

Fence == <<Backquote, Backquote, Backquote>>

\* re.sub(r'```[\w]*\s*', '', text), scanning from position i: the text up
\* to the next fence is kept, the fence, the word and the white space behind
\* it are dropped.
RECURSIVE SubFenceOpen(_, _)
SubFenceOpen(s, i) ==
    LET J == {j \in i..Len(s) : MatchAt(s, j, Fence)}
    IN IF J = {} THEN SubSeq(s, i, Len(s))
       ELSE SubSeq(s, i, Least(J) - 1)
            \o SubFenceOpen(s, SkipWhile(s, SkipWhile(s, Least(J) + 3, WordChars),
                                         Whitespace))

\* re.sub(r'```', '', text), scanning from position i
RECURSIVE SubFence(_, _)
SubFence(s, i) ==
    LET J == {j \in i..Len(s) : MatchAt(s, j, Fence)}
    IN IF J = {} THEN SubSeq(s, i, Len(s))
       ELSE SubSeq(s, i, Least(J) - 1) \o SubFence(s, Least(J) + 3)

\* re.sub(r'[...]', '', text) for a character class, and text.replace(c, '')
RemoveChars(s, set) == SelectSeq(s, LAMBDA c : c \notin set)

\* \*\*[^*]+\*\* matches at position j: two stars, a non-empty run without
\* a star, two stars.
BoldAt(s, j) ==
    /\ MatchAt(s, j, <<"*", "*">>)
    /\ SkipTo(s, j + 2, {"*"}) > j + 2
    /\ MatchAt(s, SkipTo(s, j + 2, {"*"}), <<"*", "*">>)

\* re.sub(r'\*\*[^*]+\*\*', '', text), scanning from position i
RECURSIVE SubBold(_, _)
SubBold(s, i) ==
    LET J == {j \in i..Len(s) : BoldAt(s, j)}
    IN IF J = {} THEN SubSeq(s, i, Len(s))
       ELSE SubSeq(s, i, Least(J) - 1)
            \o SubBold(s, SkipTo(s, Least(J) + 2, {"*"}) + 2)

\* ^\s*[\*\-] matches at position j: ^ matches at the start of the text and
\* after each newline.
BulletAt(s, j) ==
    /\ j = 1 \/ s[j - 1] = "\n"
    /\ SkipWhile(s, j, Whitespace) <= Len(s)
    /\ s[SkipWhile(s, j, Whitespace)] \in {"*", "-"}

\* re.sub(r'^\s*[\*\-]\s*', '', text, flags=re.MULTILINE), scanning from
\* position i
RECURSIVE SubBullets(_, _)
SubBullets(s, i) ==
    LET J == {j \in i..Len(s) : BulletAt(s, j)}
    IN IF J = {} THEN SubSeq(s, i, Len(s))
       ELSE SubSeq(s, i, Least(J) - 1)
            \o SubBullets(s, SkipWhile(s, SkipWhile(s, Least(J), Whitespace) + 1,
                                       Whitespace))

\* text.split('\n'), scanning from position i
RECURSIVE SplitLines(_, _)
SplitLines(s, i) ==
    LET J == {j \in i..Len(s) : s[j] = "\n"}
    IN IF J = {} THEN <<SubSeq(s, i, Len(s))>>
       ELSE LET j == CHOOSE j \in J : \A k \in J : j <= k
            IN <<SubSeq(s, i, j - 1)>> \o SplitLines(s, j + 1)

\* str.strip()
StripText(s) ==
    LET J == {j \in 1..Len(s) : s[j] \notin Whitespace}
    IN IF J = {} THEN <<>>
       ELSE SubSeq(s, CHOOSE j \in J : \A k \in J : j <= k,
                      CHOOSE j \in J : \A k \in J : j >= k)

\* len(line.split())
WordCount(s) ==
    Cardinality({j \in 1..Len(s) : s[j] \notin Whitespace
                                   /\ (j = 1 \/ s[j - 1] \in Whitespace)})

\* Lines 15-23 of extract_clean_command: the markdown is removed and the
\* text is cut into its trimmed non-empty lines.
CleanLines(text) ==
    LET t1 == SubFenceOpen(text, 1)
        t2 == SubFence(t1, 1)
        t3 == RemoveChars(t2, {Backquote})
        t4 == SubBold(t3, 1)
        t5 == SubBullets(t4, 1)
        split == SplitLines(t5, 1)
        stripped == [i \in 1..Len(split) |-> StripText(split[i])]
    IN SelectSeq(stripped, LAMBDA line : line # <<>>)

skip_patterns ==
    {<<"n", "o", "t", "e", ":">>,
     <<"h", "e", "r", "e">>,
     <<"t", "h", "i", "s">>,
     <<"y", "o", "u">>,
     <<"t", "h", "e">>,
     <<"e", "x", "p", "l", "a", "n", "a", "t", "i", "o", "n">>,
     <<"i", "m", "p", "o", "r", "t">>,
     <<"m", "o", "d", "i", "f", "i", "c", "a", "t", "i", "o", "n">>,
     <<"c", "o", "r", "r", "e", "c", "t", "e", "d">>,
     <<"c", "o", "m", "m", "a", "n", "d">>,
     <<"a", "l", "t", "e", "r", "n", "a", "t", "i", "v", "e">>,
     <<"a", "p", "p", "r", "o", "a", "c", "h">>,
     <<"i", "f", " ", "y", "o", "u">>,
     <<"c", "a", "n", ":">>,
     <<"s", "h", "o", "u", "l", "d">>,
     <<"w", "o", "u", "l", "d">>,
     <<"c", "o", "u", "l", "d">>,
     <<"e", "x", "a", "m", "p", "l", "e", ":">>,
     <<"d", "e", "s", "c", "r", "i", "p", "t", "i", "o", "n">>}

\* line 33: a skip pattern occurs in the lower-cased line
HasSkipPattern(line) == \E p \in skip_patterns : Contains(LowerText(line), p)

CommentMarkers == {<<"#">>, <<"/", "/">>, <<"/", "*">>, <<"<", "!", "-", "-">>}

\* lines 37-39: the line is clearly not a command
NotACommand(line) ==
    \/ EndsWith(line, <<".">>) \/ EndsWith(line, <<":">>)
    \/ Len(line) > MaxLineLen
    \/ WordCount(line) > MaxLineWords
    \/ \E m \in CommentMarkers : StartsWith(line, m)

Articles == {<<"t", "h", "e", " ">>, <<"t", "h", "i", "s", " ">>, <<"t", "h", "a", "t", " ">>, <<"a", " ">>, <<"a", "n", " ">>}

\* line 43: the line starts like a sentence
StartsLikeSentence(line) == \E a \in Articles : StartsWith(LowerText(line), a)

\* lines 45-46 and 50: re.sub(r'[*_`]', '', line).strip()
CleanMarkdown(line) == StripText(RemoveChars(line, {"*", "_", Backquote}))

CommonVerbs == {<<"g", "i", "t">>,
     <<"l", "s">>,
     <<"c", "d">>,
     <<"p", "w", "d">>,
     <<"m", "k", "d", "i", "r">>,
     <<"r", "m">>,
     <<"c", "p">>,
     <<"m", "v">>,
     <<"c", "a", "t">>,
     <<"g", "r", "e", "p">>,
     <<"f", "i", "n", "d">>,
     <<"p", "s">>,
     <<"t", "o", "p">>}

\* line 51: re.match(r'^(git|ls|...)\b', line_clean)
StartsWithCommonVerb(line) ==
    \E v \in CommonVerbs :
        /\ StartsWith(line, v)
        /\ Len(line) > Len(v) => line[Len(v) + 1] \notin WordChars

\* line 43 without the test of the line itself
MutAcceptsSkippingArticles(line) == ~HasSkipPattern(line) /\ ~NotACommand(line)

\* The loop of lines 25-46 returns at this line.
Accepts(line) ==
    /\ ~HasSkipPattern(line)
    /\ ~NotACommand(line)
    /\ line # <<>> /\ ~StartsLikeSentence(line)

\* extract_clean_command: the first line the loop accepts, else the first
\* line that starts with a common verb, else the first line.
ExtractCleanCommand(text) ==
    LET lines == CleanLines(text)
        good == {i \in 1..Len(lines) : Accepts(lines[i])}
        verb == {i \in 1..Len(lines) : StartsWithCommonVerb(CleanMarkdown(lines[i]))}
    IN IF good # {} THEN CleanMarkdown(lines[Least(good)])
       ELSE IF verb # {} THEN CleanMarkdown(lines[Least(verb)])
       ELSE IF lines # <<>> THEN lines[1] ELSE <<>>

\* One match of r'```(?:(\w+))?\s*(.*?)```' that starts at position j: where
\* the tag ends, where the body starts, and where the closing fence is
\* (0 when the text has none behind the body's start).
TagEnd(s, j) == SkipWhile(s, j + 3, WordChars)
BodyStart(s, j) == SkipWhile(s, TagEnd(s, j), Whitespace)
CloseAt(s, j) ==
    LET K == {k \in BodyStart(s, j)..Len(s) : MatchAt(s, k, Fence)}
    IN IF K = {} THEN 0 ELSE Least(K)
BlockAt(s, j) == MatchAt(s, j, Fence) /\ CloseAt(s, j) # 0

\* re.findall(code_pattern, text, re.DOTALL | re.IGNORECASE), scanning from
\* position i: the (lang, code) pairs in the order of the text.
RECURSIVE FindBlocks(_, _)
FindBlocks(s, i) ==
    LET J == {j \in i..Len(s) : BlockAt(s, j)}
    IN IF J = {} THEN <<>>
       ELSE LET j == Least(J)
            IN <<[lang |-> SubSeq(s, j + 3, TagEnd(s, j) - 1),
                  code |-> SubSeq(s, BodyStart(s, j), CloseAt(s, j) - 1)]>>
               \o FindBlocks(s, CloseAt(s, j) + 3)

\* The dict extract_code_blocks appends for a match.
CodeBlock(match) ==
    [language |-> IF match.lang # <<>> THEN LowerText(match.lang) ELSE NoneVal,
     code |-> StripText(match.code)]

\* line 65 with >= for >
MutKeepsBlockAtLimit(match) == Len(StripText(match.code)) >= MinCodeLen

\* line 65: the block is long enough to be kept
KeepsBlock(match) == Len(StripText(match.code)) > MinCodeLen

\* extract_code_blocks
ExtractCodeBlocks(text) ==
    LET matches == FindBlocks(text, 1)
        kept == SelectSeq(matches, KeepsBlock)
    IN [i \in 1..Len(kept) |-> CodeBlock(kept[i])]

\* The patterns dict of detect_language, in its insertion order.
patterns ==
    <<[lang |-> "powershell",
       keywords |-> {<<"$">>,
                    <<"g", "e", "t", "-">>,
                    <<"s", "e", "t", "-">>,
                    <<"n", "e", "w", "-">>,
                    <<"i", "m", "p", "o", "r", "t", "-", "m", "o", "d",
                      "u", "l", "e">>}],
      [lang |-> "bash",
       keywords |-> {<<"#", "!", "/", "b", "i", "n", "/", "b", "a", "s",
                      "h">>,
                    <<"e", "c", "h", "o">>,
                    <<"g", "r", "e", "p">>,
                    <<"a", "w", "k">>,
                    <<"s", "e", "d">>}],
      [lang |-> "python",
       keywords |-> {<<"i", "m", "p", "o", "r", "t", " ">>,
                    <<"d", "e", "f", " ">>,
                    <<"p", "r", "i", "n", "t", "(">>,
                    <<"i", "f", " ", "_", "_", "n", "a", "m", "e", "_",
                      "_">>}],
      [lang |-> "javascript",
       keywords |-> {<<"f", "u", "n", "c", "t", "i", "o", "n">>,
                    <<"v", "a", "r", " ">>,
                    <<"c", "o", "n", "s", "t", " ">>,
                    <<"l", "e", "t", " ">>}]>>

\* lines 86: a keyword of the entry occurs in the lower-cased code
HasKeyword(entry, code) == \E k \in entry.keywords : Contains(LowerText(code), k)

\* The fallback of detect_language.
DefaultLanguage == "bash"

\* The loop of detect_language going through the dict from its last entry.
MutDetectLanguageLastWins(code) ==
    LET hits == {i \in 1..Len(patterns) : HasKeyword(patterns[i], code)}
    IN IF hits = {} THEN DefaultLanguage
       ELSE patterns[CHOOSE i \in hits : \A k \in hits : i >= k].lang

\* detect_language
DetectLanguage(code) ==
    LET hits == {i \in 1..Len(patterns) : HasKeyword(patterns[i], code)}
    IN IF hits = {} THEN DefaultLanguage ELSE patterns[Least(hits)].lang

----------------------------------------------------------------------------
(* The orchestrator: what AIFabricShell does with the gate's result *)

\* Confirm.ask with the answer ignored.
MutConfirmAskAlways(input) == TRUE

\* Confirm.ask: y is True, n is False, anything else is asked again.
ConfirmAsk(input) == input = "y"

ConfirmInputs == {"y", "n"}

\* self.current_shell, detected once at start.
CurrentShell == "bash"

\* What extract_clean_command can give for the AI's answer: nothing, the
\* command that was tried, or another one.
Extracted == {<<>>, <<"ls", "-la">>, <<"ls", "-l">>}

\* The branch generate_oneliner takes on the gate's result.
FollowUpKind(r) ==
    IF Get(r, "user_confirmed_failure", FALSE) THEN "alternative"
    ELSE IF ~Falsy(Get(r, "error", NoneVal))
            \/ (~Falsy(Get(r, "stderr", NoneVal)) /\ ~Get(r, "success", FALSE))
    THEN "troubleshoot"
    ELSE "none"

\* The gate was called by generate_oneliner for the generated command and
\* its result opens a follow-up question.
FollowUpOffered ==
    /\ pc = "returned"
    /\ origin = "fresh"
    /\ ai_chat_func = "func"
    /\ FollowUpKind(result) # "none"

\* Nothing follows the result: a fresh gate whose result opens no question,
\* or the gate of an alternative or corrected command.
ReturnDone ==
    /\ ~FollowUpOffered
    /\ Return

\* generate_oneliner, lines 204-238: "generate an alternative approach?".
\* On yes the AI is asked and, when a command can be extracted from its
\* answer, the gate is called for it.
AnswerAlternative(input, alternative_command) ==
    /\ FollowUpOffered
    /\ FollowUpKind(result) = "alternative"
    /\ IF ConfirmAsk(input) /\ alternative_command # <<>>
       THEN /\ followAnswer' = input
            /\ origin' = "alternative"
            /\ EnterGate(alternative_command, <<"Alternative:">> \o task_description,
                         shell_type, "func")
            /\ UNCHANGED exOut
       ELSE BackToIdle

\* generate_oneliner, lines 241-243, and _troubleshoot_error up to its
\* question: "AI troubleshoot this error?".  On yes the AI is asked and, when
\* a command can be extracted, "Try corrected command?" is asked.
AnswerTroubleshoot(input, corrected) ==
    /\ FollowUpOffered
    /\ FollowUpKind(result) = "troubleshoot"
    /\ IF ConfirmAsk(input) /\ corrected # <<>>
       THEN /\ pc' = "ASK_TRY_CORRECTED"
            /\ command' = corrected
            /\ followAnswer' = NotAsked
            /\ UNCHANGED <<history, disk, now, task_description, shell_type,
                           ai_chat_func, result, rawResult, gates, explains,
                           explainShown, answer, goalAnswer, runnerCalls, ranCommand,
                           addCalls, saved, presented, history0, disk0, origin, simOut, exOut>>
       ELSE BackToIdle

\* _troubleshoot_error, lines 285-289: "Try corrected command?".
AnswerTryCorrected(input) ==
    /\ pc = "ASK_TRY_CORRECTED"
    /\ IF ConfirmAsk(input)
       THEN /\ followAnswer' = input
            /\ origin' = "corrected"
            /\ EnterGate(command, <<"Fixed:">> \o task_description, shell_type, "func")
            /\ UNCHANGED exOut
       ELSE BackToIdle

\* _handle_unknown_command, lines 521-524, and _troubleshoot_passthrough_error:
\* after a failed passthrough, "analyze and suggest a fix?".  On yes the AI
\* is asked and the gate is called for a corrected command that differs.
AnswerAnalyze(input, corrected) ==
    /\ pc = "idle"
    /\ rawResult # NoResult
    /\ ~Falsy(ShowResult(rawResult, FALSE, <<>>, "").error)
    /\ IF ConfirmAsk(input) /\ corrected # <<>> /\ corrected # rawResult.command
       THEN /\ followAnswer' = input
            /\ origin' = "passthrough"
            /\ EnterGate(corrected, <<"Fix", "for:">> \o rawResult.command,
                         CurrentShell, "func")
            /\ UNCHANGED exOut
       ELSE /\ rawResult' = NoResult
            /\ UNCHANGED <<history, disk, now, pc, command, task_description,
                           shell_type, ai_chat_func, result, gates, explains,
                           explainShown, answer, goalAnswer, runnerCalls, ranCommand,
                           addCalls, saved, presented, history0, disk0, origin,
                           followAnswer, simOut, exOut>>

\* `if command:` with the test left out.
MutHasCommandAlways(cmd) == TRUE

\* generate_oneliner, line 196: `if command:`.
HasCommand(cmd) == cmd # <<>>

\* What the AI can answer to the request for a command: nothing, a fenced
\* command, a markdown rule.
Responses ==
    {<<>>,
     <<Backquote, Backquote, Backquote, "b", "a", "s", "h", "\n", "l", "s",
       " ", "-", "l", "a", "\n", Backquote, Backquote, Backquote>>,
     <<"_", "_", "_", "\n">>}

\* generate_oneliner up to the gate, lines 150-203: the AI's response is
\* handed to extract_clean_command; with a command the gate is called for it,
\* without one a message is printed and the shell is back at its prompt.
GenerateOneliner(task, response) ==
    /\ pc = "idle"
    /\ exOut' = [op |-> "generate_oneliner", text |-> StripText(response),
                 value |-> ExtractCleanCommand(StripText(response))]
    /\ IF HasCommand(ExtractCleanCommand(StripText(response)))
       THEN /\ origin' = "fresh"
            /\ followAnswer' = NotAsked
            /\ EnterGate(ExtractCleanCommand(StripText(response)), task,
                         CurrentShell, "func")
       ELSE UNCHANGED <<history, disk, now, pc, command, task_description, shell_type,
                        ai_chat_func, result, rawResult, gates, explains, explainShown,
                        answer, goalAnswer, runnerCalls, ranCommand, addCalls, saved,
                        presented, history0, disk0, origin, followAnswer, simOut>>

\* The orchestrator starts on an empty or absent history.
InitOrch == Init /\ disk.entries = <<>>

\* The orchestrator's branches depend on the kind of outcome only: one
\* successful run without output, and every failing one.
OrchOutcomes == {o \in RunnerOutcomes : o.kind = "exit" => o.stdout = <<>>}
OrchSaves == {"ok"}

NextOrch ==
    \/ \E inv \in Invocations :
          Invoke(inv.command, inv.task_description, inv.shell_type, inv.ai_chat_func)
    \/ \E response \in Responses : GenerateOneliner(<<"list", "files">>, response)
    \/ \E input \in ExecuteInputs, responder \in Responders :
          ChooseExplain(input, responder)
    \/ \E input \in ExecuteInputs, outcome \in OrchOutcomes, save \in OrchSaves :
          ChooseExecute(input, outcome, save)
    \/ \E input \in ExecuteInputs : ChooseCancel(input)
    \/ \E input \in GoalInputs, save \in OrchSaves : GoalPrompt(input, save)
    \/ ReturnDone
    \/ \E input \in ConfirmInputs, cmd \in Extracted : AnswerAlternative(input, cmd)
    \/ \E input \in ConfirmInputs, cmd \in Extracted : AnswerTroubleshoot(input, cmd)
    \/ \E input \in ConfirmInputs : AnswerTryCorrected(input)
    \/ \E input \in ConfirmInputs, cmd \in Extracted : AnswerAnalyze(input, cmd)
    \/ Ready
    \/ \E cmd \in Commands, outcome \in RawOutcomes : RawPassthrough(cmd, outcome)

SpecOrch == InitOrch /\ [][NextOrch]_vars

----------------------------------------------------------------------------
(* Properties of the execution gate *)

Last(s) == s[Len(s)]

\* The gate has returned the result of a run that succeeded.
ReturnedSuccess == pc = "returned" /\ Get(result, "success", FALSE)

\* What Prompt.ask gave back at the post-hoc prompt, once it was asked.
GoalSaidYes == goalAnswer # NotAsked /\ PromptAsk(goalAnswer, GoalDefault) \in {"y", "yes"}
GoalSaidNo == goalAnswer # NotAsked /\ PromptAsk(goalAnswer, GoalDefault) \in {"n", "no"}

StoreUntouched == history = history0 /\ disk = disk0 /\ addCalls = 0

\* C1: the runner is invoked only after the operator typed y or yes at the
\* execute prompt of this invocation; n, no and the empty line never lead to
\* it, and while the gate is still at the prompt (after any number of explain
\* rounds) the runner has not been invoked.
C1_RunnerOnlyAfterYes ==
    /\ runnerCalls > 0 => answer \in {"y", "yes"}
    /\ pc = "PRESENTED" => runnerCalls = 0
    /\ (pc = "returned" /\ answer \in {"n", "no", ""}) => runnerCalls = 0

C1_Witness ==
    pc = "returned" /\ runnerCalls = 1 /\ answer = "yes" /\ explains > 0

\* C2: when the operator answers n (or no, or the empty line that defaults
\* to n) at the execute prompt the gate returns exactly {cancelled: true}, at
\* once (no run, no second question), and the in-memory history and the
\* history file are as they were when the gate was entered.
C2_CancelLeavesStore ==
    (pc = "returned" /\ answer \in {"n", "no", ""}) =>
        /\ result = [cancelled |-> TRUE]
        /\ runnerCalls = 0
        /\ goalAnswer = NotAsked
        /\ StoreUntouched

C2_Witness ==
    /\ pc = "returned" /\ answer = "n" /\ explains > 0
    /\ Len(history) = HistoryCap

\* C3 as stated: after success, a non-empty task and a yes (the write having
\* succeeded), the store, in memory and on disk, is one entry larger than
\* before, whatever it held, and the new entry carries the gate's arguments.
C3_SizeGrowsByOne ==
    (ReturnedSuccess /\ task_description # <<>> /\ GoalSaidYes /\ saved = "ok") =>
        /\ Len(history) = Len(history0) + 1
        /\ Len(disk.entries) = Len(history0) + 1
        /\ Last(history).command = presented.command
        /\ Last(history).task_description = presented.task_description
        /\ Last(history).shell_type = presented.shell_type

\* C3 amended: the in-memory collection grows by exactly one entry, appended
\* last and carrying the gate's command, task_description and shell_type; when
\* the write succeeds the file holds the last 100 entries of that collection,
\* so it is one entry larger only while the collection held fewer than 100
\* entries, and otherwise still holds 100 entries, the new one last.
C3_MemoryGrowsDiskCapped ==
    (ReturnedSuccess /\ task_description # <<>> /\ GoalSaidYes) =>
        /\ addCalls = 1
        /\ Len(history) = Len(history0) + 1
        /\ SubSeq(history, 1, Len(history0)) = history0
        /\ Last(history).command = presented.command
        /\ Last(history).task_description = presented.task_description
        /\ Last(history).shell_type = presented.shell_type
        /\ Last(history).success = TRUE
        /\ saved = "ok" =>
              /\ disk.kind = "array"
              /\ Len(disk.entries) = Min(Len(history0) + 1, HistoryCap)
              /\ Last(disk.entries) = Last(history)

C3_Witness ==
    /\ ReturnedSuccess /\ task_description # <<>> /\ GoalSaidYes /\ saved = "ok"
    /\ Len(history0) = HistoryCap
    /\ Len(disk.entries) = HistoryCap

\* C4: after success, a non-empty task and a no at the post-hoc prompt, the
\* result carries user_confirmed_failure = true, add_successful_command was
\* not called and the store is as it was.
C4_UnmetNotPersisted ==
    (ReturnedSuccess /\ task_description # <<>> /\ GoalSaidNo) =>
        /\ Get(result, "user_confirmed_failure", FALSE) = TRUE
        /\ StoreUntouched

C4_Witness ==
    /\ ReturnedSuccess /\ task_description # <<>> /\ goalAnswer = "no"
    /\ Get(result, "user_confirmed_failure", FALSE)

\* C5: after success with an empty task the gate returns without having
\* asked the post-hoc question and without calling add_successful_command;
\* the store is as it was and the result is not flagged.
C5_EmptyTaskNoQuestion ==
    /\ pc = "ASK_GOAL" => task_description # <<>>
    /\ (ReturnedSuccess /\ task_description = <<>>) =>
          /\ goalAnswer = NotAsked
          /\ ~Get(result, "user_confirmed_failure", FALSE)
          /\ StoreUntouched

C5_Witness ==
    ReturnedSuccess /\ task_description = <<>> /\ runnerCalls = 1

\* The results execute_command gives for the runs that fail.
FailureResults ==
    {ExecuteCommand(command, shell_type, o) :
        o \in {x \in RunnerOutcomes : x.kind # "exit" \/ x.returncode # 0}}

\* C6: when the run fails (timeout, spawn error, non-zero exit) the gate
\* returns the runner's result with its error text as the runner gave it, the
\* post-hoc question is never asked, add_successful_command is not called and
\* the store is as it was, with or without a task.
C6_FailureNotPersisted ==
    /\ pc = "ASK_GOAL" => Get(result, "success", FALSE)
    /\ (pc = "returned" /\ runnerCalls > 0 /\ ~Get(result, "success", FALSE)) =>
          /\ result \in FailureResults
          /\ goalAnswer = NotAsked
          /\ StoreUntouched

C6_Witness ==
    /\ pc = "returned" /\ runnerCalls = 1 /\ task_description # <<>>
    /\ Get(result, "error", "") = "Command timed out after 30 seconds"

\* C7: every step of a session that changes the in-memory history or the
\* history file is the end of a gate invocation whose command was run after
\* a y/yes, whose process returned 0 and whose post-hoc prompt gave back
\* y/yes; it appends exactly one entry, with success = true.  (The only other
\* change is the start of a new session, which reloads the history from the
\* file and leaves the file alone.)
C7_OnlyConfirmedSuccessAppends ==
    [][(history' # history \/ disk' # disk) =>
          \/ /\ pc = "idle" /\ pc' = "loaded"
             /\ history' = LoadHistory(disk) /\ disk' = disk
          \/ /\ pc = "ASK_GOAL" /\ pc' = "returned"
             /\ runnerCalls' = 1
             /\ answer' \in {"y", "yes"}
             /\ Get(result', "returncode", 1) = 0
             /\ Get(result', "success", FALSE)
             /\ PromptAsk(goalAnswer', GoalDefault) \in {"y", "yes"}
             /\ Len(history') = Len(history) + 1
             /\ SubSeq(history', 1, Len(history)) = history
             /\ Last(history').success = TRUE]_vars

C7_Witness ==
    pc = "returned" /\ addCalls = 1 /\ Len(history) = Len(history0) + 1

----------------------------------------------------------------------------
(* Properties of the history store *)

\* C8: the entry collection never holds more than 100 entries.
C8_AtMostCapEntries == Len(history) <= HistoryCap

\* C9: after an add whose write succeeded, the file's entries are the
\* in-memory collection.
C9_DiskEqualsMemory ==
    (pc = "returned" /\ addCalls = 1 /\ saved = "ok") =>
        disk.kind = "array" /\ disk.entries = history

\* C10 as stated: a stored output_preview is at most 200 characters long.
C10_PreviewAtMost200 ==
    (pc = "returned" /\ addCalls = 1) =>
        Len(Last(history).output_preview) <= PreviewLen

\* C10 amended: the stored output_preview is the output itself when the
\* output has at most 200 characters, and otherwise the first 200 characters
\* of the output followed by "...", 203 characters in all.
C10_PreviewIsPrefixPlusEllipsis ==
    (pc = "returned" /\ addCalls = 1) =>
        LET out == Get(result, "stdout", <<>>)
            pv == Last(history).output_preview
        IN IF Len(out) <= PreviewLen
           THEN pv = out
           ELSE /\ Len(pv) = PreviewLen + Len(Ellipsis)
                /\ SubSeq(pv, 1, PreviewLen) = SubSeq(out, 1, PreviewLen)
                /\ SubSeq(pv, PreviewLen + 1, Len(pv)) = Ellipsis

C10_Witness ==
    /\ pc = "returned" /\ addCalls = 1
    /\ Len(Get(result, "stdout", <<>>)) > PreviewLen

\* The load found no usable file: the file is absent, or json.load raised.
LoadFailed(d) == d.kind \in {"missing", "malformed", "partial"}

\* C11 as stated: loading a missing or malformed file yields an empty
\* collection and leaves the file alone, and the file then stays as it was
\* until an add_successful_command whose write succeeds.
C11_FileUnchangedUntilGoodWrite ==
    /\ (pc = "loaded" /\ LoadFailed(disk0)) => (history = <<>> /\ disk = disk0)
    /\ (LoadFailed(disk0) /\ saved # "ok") => disk = disk0

\* C11 amended: loading a missing or malformed file yields an empty
\* collection and does not write (a well-formed file is loaded as it is and
\* not written either); the file stays as it was until an
\* add_successful_command opens it for writing: a write that succeeds leaves
\* the JSON array, a write that fails after the open leaves a truncated file.
C11_LoadNeverWrites ==
    /\ pc = "loaded" =>
          /\ disk = disk0
          /\ history = (IF LoadFailed(disk) THEN <<>> ELSE disk.entries)
    /\ LoadFailed(disk0) =>
          /\ saved \in {"none", "open_failed"} => disk = disk0
          /\ saved = "write_failed" => disk = Partial
          /\ saved = "ok" => disk = JsonDump(LastN(history, HistoryCap))

C11_Witness ==
    pc = "loaded" /\ gates > 0 /\ disk = Partial /\ history = <<>>

\* C12 as stated: when the write fails during add_successful_command the
\* entry is in memory, the gate returns the successful result, and the file
\* keeps its previous contents.
C12_FailedWriteKeepsFile ==
    (pc = "returned" /\ addCalls = 1 /\ saved \in {"open_failed", "write_failed"}) =>
        /\ Len(history) = Len(history0) + 1
        /\ Get(result, "success", FALSE)
        /\ disk = disk0

\* C12 amended: when the write fails during add_successful_command the gate
\* still returns the successful result (success true, no
\* user_confirmed_failure), the new entry is the last of the in-memory
\* collection, which is otherwise as before; the file keeps its previous
\* contents when it could not be opened, and is left truncated when the
\* failure came after it was opened for writing.
C12_FailedWriteKeepsMemory ==
    (pc = "returned" /\ addCalls = 1 /\ saved \in {"open_failed", "write_failed"}) =>
        /\ Len(history) = Len(history0) + 1
        /\ SubSeq(history, 1, Len(history0)) = history0
        /\ Last(history).command = presented.command
        /\ Last(history).task_description = presented.task_description
        /\ Last(history).shell_type = presented.shell_type
        /\ Get(result, "success", FALSE)
        /\ Get(result, "returncode", 1) = 0
        /\ ~Get(result, "user_confirmed_failure", FALSE)
        /\ saved = "open_failed" => disk = disk0
        /\ saved = "write_failed" => disk = Partial

C12_Witness ==
    /\ pc = "returned" /\ addCalls = 1 /\ saved = "write_failed"
    /\ disk0.kind = "array" /\ Len(disk0.entries) = HistoryCap

----------------------------------------------------------------------------
(* The history manager called on its own: stores, queries and limits *)

MaxAdds == 2

\* The two stored tasks of the worked example.
ExampleStore ==
    <<NewEntry(<<"ls", "-la">>, <<"list", "all", "files">>, "bash", <<>>, 1),
      NewEntry(<<"find", ".", "-size", "+1M">>, <<"find", "large", "files">>, "bash",
               MkText(1), 2)>>

\* Five stored tasks that all share a word, some with equal word sets.
FiveStore ==
    <<NewEntry(<<"ls">>, <<"list", "files">>, "bash", <<>>, 1),
      NewEntry(<<"find", ".", "-size", "+1M">>, <<"find", "large", "files">>, "bash",
               MkText(1), 2),
      NewEntry(<<"dir">>, <<"List", "FILES">>, "powershell", <<>>, 3),
      NewEntry(<<"ls", "-la">>, <<"list", "all", "files">>, "zsh", <<>>, 4),
      NewEntry(<<"ls", "|", "wc", "-l">>, <<"count", "files">>, "bash", MkText(1), 5)>>

SimDisks == {Missing, JsonDump(ExampleStore), JsonDump(FiveStore)}

\* Files holding a JSON array of objects that are not entries as
\* add_successful_command writes them: no task_description, no success, no
\* command.
ForeignDisks ==
    {JsonDump(<<[success |-> TRUE, command |-> <<"ls">>]>>),
     JsonDump(<<[command |-> <<"ls">>, task_description |-> <<"list", "files">>]>>),
     JsonDump(<<[success |-> TRUE, task_description |-> <<"list", "files">>]>>)}

SimTasks == {<<"list", "all", "files">>, <<"Find", "files">>, <<"show", "disk", "usage">>}
SimQueries == {<<"list", "files">>, <<"Find", "large", "FILES">>, <<"reboot">>}
SimLimits == {-1, 0, 1, 2, DefaultLimit}

\* get_similar_commands(task_description, limit) is called.
SimilarCall(task, limit) ==
    /\ pc = "loaded"
    /\ simOut' = IF SimilarRaises(history)
                 THEN [op |-> "similar", query |-> task, limit |-> limit,
                       raised |-> "KeyError"]
                 ELSE [op |-> "similar", query |-> task, limit |-> limit,
                       value |-> GetSimilarCommands(history, task, limit)]
    /\ UNCHANGED <<history, disk, now, pc, command, task_description, shell_type,
                   ai_chat_func, result, rawResult, gates, explains, explainShown,
                   answer, goalAnswer, runnerCalls, ranCommand, addCalls, saved,
                   presented, history0, disk0, origin, followAnswer, exOut>>

\* get_context_string(task_description) is called.
ContextCall(task) ==
    /\ pc = "loaded"
    /\ simOut' = IF ContextRaises(history, task)
                 THEN [op |-> "context", query |-> task, limit |-> DefaultLimit,
                       raised |-> "KeyError"]
                 ELSE [op |-> "context", query |-> task, limit |-> DefaultLimit,
                       value |-> GetContextString(history, task)]
    /\ UNCHANGED <<history, disk, now, pc, command, task_description, shell_type,
                   ai_chat_func, result, rawResult, gates, explains, explainShown,
                   answer, goalAnswer, runnerCalls, ranCommand, addCalls, saved,
                   presented, history0, disk0, origin, followAnswer, exOut>>

\* add_successful_command(command, task_description, shell_type, output) is
\* called, _save_history included.
AddCall(cmd, task, shell, output, save) ==
    /\ pc = "loaded"
    /\ addCalls < MaxAdds
    /\ history' = AddSuccessfulCommand(history, cmd, task, shell, output, now)
    /\ now' = now + 1
    /\ disk' = SaveHistory(history', disk, save)
    /\ addCalls' = addCalls + 1
    /\ saved' = save
    /\ simOut' = NoCall
    /\ UNCHANGED <<pc, command, task_description, shell_type, ai_chat_func, result,
                   rawResult, gates, explains, explainShown, answer, goalAnswer,
                   runnerCalls, ranCommand, presented, history0, disk0, origin,
                   followAnswer, exOut>>

InitSimilar == \E d \in SimDisks : InitWith(d)

NextSimilar ==
    \/ \E task \in SimQueries, limit \in SimLimits : SimilarCall(task, limit)
    \/ \E task \in SimQueries : ContextCall(task)
    \/ \E task \in SimTasks, save \in {"ok", "open_failed"} :
          AddCall(<<"ls">>, task, "bash", <<>>, save)

SpecSimilar == InitSimilar /\ [][NextSimilar]_vars

InitForeign == \E d \in ForeignDisks : InitWith(d)

SpecForeign == InitForeign /\ [][NextSimilar]_vars

----------------------------------------------------------------------------
(* Properties of the similarity search and the context block *)

Range(seq) == {seq[i] : i \in 1..Len(seq)}

Max(a, b) == IF a >= b THEN a ELSE b

\* The Jaccard score of word set a against q is strictly above that of b.
JaccardGreater(q, a, b) ==
    Cardinality(q \cap a) * Cardinality(q \cup b)
        > Cardinality(q \cap b) * Cardinality(q \cup a)

\* A call of get_similar_commands has returned a list.
SimilarReturned == simOut.op = "similar" /\ "value" \in DOMAIN simOut

\* A call of get_context_string has returned a text.
ContextReturned == simOut.op = "context" /\ "value" \in DOMAIN simOut

\* The lines of one kind in a context block.
LinesOf(block, kind) ==
    LET OfKind(l) == l.kind = kind IN SelectSeq(block, OfKind)

\* C13: no call of the history manager raises: each call leaves a value.
C13_NothingRaises == "raised" \notin DOMAIN simOut

\* C18: get_similar_commands returns entries of the store, each once, each
\* sharing a lower-cased word with the query, in order of non-increasing
\* Jaccard score, and no entry left out scores strictly higher than one
\* returned; for the stored tasks "list all files" and "find large files" the
\* query "list files" with limit 1 gives the "list all files" entry, and the
\* empty store gives the empty list.
C18_SimilarRanksByJaccard ==
    SimilarReturned =>
        LET q == Tokens(simOut.query)
            v == simOut.value
            T(e) == Tokens(e.task_description)
        IN /\ \A i \in 1..Len(v) : v[i] \in Range(history) /\ T(v[i]) \cap q # {}
           /\ \A i, j \in 1..Len(v) :
                 i < j => v[i] # v[j] /\ ~JaccardGreater(q, T(v[j]), T(v[i]))
           /\ \A e \in Range(history) \ Range(v) :
                 \A i \in 1..Len(v) : ~JaccardGreater(q, T(e), T(v[i]))
           /\ history = <<>> => v = <<>>
           /\ (history = ExampleStore /\ simOut.query = <<"list", "files">>
                  /\ simOut.limit = 1) => v = <<ExampleStore[1]>>

C18_Witness ==
    /\ SimilarReturned /\ simOut.limit = 2 /\ Len(simOut.value) = 2
    /\ Len(history) > Len(FiveStore)
    /\ simOut.query = <<"Find", "large", "FILES">>
    /\ simOut.value[1] = history[2]

\* C19: get_similar_commands(query, limit) returns at most max(limit, 0)
\* entries, for every integer limit.
C19_AtMostLimit ==
    SimilarReturned => Len(simOut.value) <= Max(simOut.limit, 0)

\* C20: get_context_string returns the empty text exactly when
\* get_similar_commands returns no entry for the task; otherwise the block
\* has one task line, one command line and one shell line per match, numbered
\* and in the order of the ranking, for at most 5 matches.
C20_ContextListsMatches ==
    ContextReturned =>
        LET similar == GetSimilarCommands(history, simOut.query, DefaultLimit)
            block == simOut.value
            tasks == LinesOf(block, "task")
            commands == LinesOf(block, "command")
            shells == LinesOf(block, "shell")
        IN /\ block = <<>> <=> similar = <<>>
           /\ Len(tasks) = Len(similar)
           /\ Len(commands) = Len(similar)
           /\ Len(shells) = Len(similar)
           /\ Len(similar) <= DefaultLimit
           /\ \A i \in 1..Len(similar) :
                 /\ tasks[i] = Line("task", i, similar[i].task_description)
                 /\ commands[i] = Line("command", i, similar[i].command)
                 /\ shells[i] = Line("shell", i, <<similar[i].shell_type>>)

C20_Witness ==
    /\ ContextReturned
    /\ Len(LinesOf(simOut.value, "task")) = DefaultLimit
    /\ Len(GetSimilarCommands(history, simOut.query, Len(history))) > DefaultLimit

\* The place of an entry in the history: its insertion order.
IndexIn(h, e) == CHOOSE k \in 1..Len(h) : h[k] = e

\* C30: two returned entries whose Jaccard scores against the query are equal
\* appear in the order in which they were added to the history, the earlier
\* one first.
C30_TiesKeepInsertionOrder ==
    SimilarReturned =>
        LET q == Tokens(simOut.query)
            v == simOut.value
            T(e) == Tokens(e.task_description)
        IN \A i, j \in 1..Len(v) :
              (/\ i < j
               /\ ~JaccardGreater(q, T(v[i]), T(v[j]))
               /\ ~JaccardGreater(q, T(v[j]), T(v[i])))
                 => IndexIn(history, v[i]) < IndexIn(history, v[j])

C30_Witness ==
    /\ SimilarReturned /\ simOut.query = <<"list", "files">>
    /\ Len(history) >= Len(FiveStore) /\ Len(simOut.value) >= 2
    /\ simOut.value[1] = history[1] /\ simOut.value[2] = history[3]
    /\ Tokens(history[1].task_description) = Tokens(history[3].task_description)

----------------------------------------------------------------------------
(* Explain rounds *)

\* Everything an explain round must leave alone.
ExplainFrame ==
    <<command, task_description, shell_type, ai_chat_func, result, runnerCalls,
      ranCommand, history, disk, now, addCalls, saved, gates, goalAnswer,
      presented, history0, disk0>>

C17_ConfirmedFailureOnlyWithSuccess ==
    pc = "returned" =>
        /\ "user_confirmed_failure" \in DOMAIN result =>
              /\ result.user_confirmed_failure = TRUE
              /\ "success" \in DOMAIN result /\ result.success = TRUE
              /\ result.returncode = 0
              /\ GoalSaidNo
        /\ ("cancelled" \in DOMAIN result \/ "error" \in DOMAIN result
                \/ ~Get(result, "success", FALSE)) =>
              "user_confirmed_failure" \notin DOMAIN result

C17_Witness ==
    /\ pc = "returned" /\ Get(result, "user_confirmed_failure", FALSE)
    /\ result.success = TRUE /\ addCalls = 0

----------------------------------------------------------------------------
(* No automatic retry *)

\* C16: within one invocation of the gate the runner is invoked at most
\* once, whatever its outcome, and only on y / yes; and an invocation of the
\* gate is entered either for a request the operator typed at the shell's
\* prompt, or, when it follows a result (unmet goal, failure, failed
\* passthrough), in a step in which the operator answers y to the
\* orchestrator's question, never on n and never without a question.
C16_NoAutomaticRetry ==
    /\ [](runnerCalls <= 1)
    /\ [][runnerCalls' = runnerCalls + 1 =>
            pc = "PRESENTED" /\ runnerCalls = 0 /\ answer' \in {"y", "yes"}]_vars
    /\ [][gates' = gates + 1 =>
            /\ runnerCalls' = 0
            /\ pc' = "PRESENTED"
            /\ \/ pc = "idle" /\ origin' = "fresh" /\ followAnswer' = NotAsked
               \/ /\ \/ pc = "returned" /\ FollowUpKind(result) = "alternative"
                     \/ pc = "ASK_TRY_CORRECTED"
                     \/ pc = "idle" /\ rawResult # NoResult
                  /\ followAnswer' = "y"
                  /\ origin' \in {"alternative", "corrected", "passthrough"}]_vars
    /\ []((origin \in {"alternative", "corrected", "passthrough"}) => followAnswer = "y")

C16_Witness ==
    /\ pc = "returned" /\ origin = "corrected" /\ followAnswer = "y"
    /\ runnerCalls = 1 /\ "error" \in DOMAIN result

----------------------------------------------------------------------------
(* The command that runs is the command that was approved *)

\* C26: once the runner has been invoked, the command string handed to the
\* spawned process is the candidate that was presented and approved, and the
\* result's fixed_command, when present, is the string that was executed.
C26_SpawnedIsApproved ==
    runnerCalls > 0 =>
        /\ ranCommand = presented.command
        /\ "fixed_command" \in DOMAIN result => result.fixed_command = ranCommand

----------------------------------------------------------------------------
(* Follow-up questions of generate_oneliner *)

\* The execution behind a gate result failed: the runner raised or timed
\* out (an error entry), or the process ended with a non-zero exit.
IsFailure(r) ==
    /\ ~Get(r, "cancelled", FALSE)
    /\ \/ "error" \in DOMAIN r
       \/ "returncode" \in DOMAIN r /\ r.returncode # 0

\* C28: when the gate called by generate_oneliner has returned, AI error
\* troubleshooting is the question offered exactly when the execution was a
\* failure (runner error, timeout or non-zero exit, whatever stderr holds);
\* a result flagged user_confirmed_failure gets the alternative-approach
\* question only, and a cancelled or confirmed-success result gets none.
C28_TroubleshootExactlyOnFailure ==
    (pc = "returned" /\ origin = "fresh" /\ ai_chat_func = "func") =>
        /\ FollowUpKind(result) = "troubleshoot" <=> IsFailure(result)
        /\ Get(result, "user_confirmed_failure", FALSE)
              => FollowUpKind(result) = "alternative"
        /\ (Get(result, "cancelled", FALSE)
            \/ (Get(result, "success", FALSE)
                /\ ~Get(result, "user_confirmed_failure", FALSE)))
              => FollowUpKind(result) = "none"



----------------------------------------------------------------------------
(* The text extractors called on their own: texts, blocks and code *)

MaxLines == 2    \* lines, or blocks, of a text

\* The sequences over S of at most n elements.
SeqsUpTo(S, n) == UNION {[1..k -> S] : k \in 0..n}

\* '\n'.join(lines)
RECURSIVE JoinLines(_)
JoinLines(lines) ==
    IF lines = <<>> THEN <<>>
    ELSE IF Len(lines) = 1 THEN lines[1]
    ELSE lines[1] \o <<"\n">> \o JoinLines(Tail(lines))

\* A line of n characters and a line of n words.
LongLine(n) == [i \in 1..n |-> "y"]
WordyLine(n) == [i \in 1..(2 * n - 1) |-> IF i % 2 = 1 THEN "x" ELSE " "]

\* Lines an AI response is made of: prose, commands, markdown, and lines at
\* and just over the two length limits.
ResponseLines ==
    {<<"H", "e", "r", "e", " ", "i", "s", " ", "w", "h", "a", "t", " ",
       "y", "o", "u", " ", "n", "e", "e", "d", ":">>,
     <<"c", "p", " ", "-", "r", " ", "s", "r", "c", " ", "d", "s", "t">>,
     <<"l", "s", " ", "m", "y", "_", "d", "i", "r">>,
     <<"t", "h", "a", "t", " ", "o", "n", "e">>,
     <<"#", " ", "l", "i", "s", "t", " ", "f", "i", "l", "e", "s">>,
     <<"-", " ", "l", "s", " ", "-", "l", "a">>,
     <<"*", "*", "R", "u", "n", ":", "*", "*", " ", "p", "w", "d">>,
     <<Backquote, Backquote, Backquote, "b", "a", "s", "h">>,
     <<"_", "_", "_">>,
     <<"c", "a", "t", " ", "t", "h", "e", "m", "e", ".", "t", "x", "t">>,
     LongLine(MaxLineLen), LongLine(MaxLineLen + 1),
     WordyLine(MaxLineWords), WordyLine(MaxLineWords + 1)}

CopyExample ==
    <<"H", "e", "r", "e", " ", "i", "s", " ", "w", "h", "a", "t", " ", "y",
      "o", "u", " ", "n", "e", "e", "d", ":", "\n", "T", "h", "i", "s",
      " ", "w", "i", "l", "l", " ", "c", "o", "p", "y", " ", "f", "i", "l",
      "e", "s", ".", "\n", "c", "p", " ", "-", "r", " ", "s", "r", "c",
      " ", "d", "s", "t", "\n">>

ResponseTexts == {JoinLines(ls) : ls \in SeqsUpTo(ResponseLines, MaxLines)} \cup {CopyExample}

\* A fenced block as it stands in a response: the fence, the tag, the rest
\* of the opening line, the body, the fence.
RenderBlock(b) == Fence \o b.tag \o b.gap \o b.body \o Fence

\* Prose and fenced blocks a response is made of.  The bodies have 2, 5, 6
\* and 8 characters once trimmed.
Segments ==
    {[kind |-> "prose", text |-> <<"R", "u", "n", " ", "t", "h", "i", "s", ":">>],
     [kind |-> "block", tag |-> <<"p", "y", "t", "h", "o", "n">>, gap |-> <<"\n">>,
      body |-> <<"p", "r", "i", "n", "t", "(", "1", ")", "\n">>],
     [kind |-> "block", tag |-> <<>>, gap |-> <<"\n">>, body |-> <<"h", "i", "\n">>],
     [kind |-> "block", tag |-> <<>>, gap |-> <<"\n">>,
      body |-> <<" ", "l", "s", " ", "-", "l", " ", "\n">>],
     [kind |-> "block", tag |-> <<"B", "a", "s", "h">>, gap |-> <<" ", "\n">>,
      body |-> <<"l", "s", " ", "-", "l", "a", "\n">>],
     [kind |-> "block", tag |-> <<"P", "o", "w", "e", "r", "S", "h", "e", "l", "l">>,
      gap |-> <<"\n">>,
      body |-> <<"G", "e", "t", "-", "D", "a", "t", "e", "\n", "\n">>]}

\* The response made of segs, one segment after the other.
RenderSegments(segs) ==
    JoinLines([i \in 1..Len(segs) |->
                 IF segs[i].kind = "block" THEN RenderBlock(segs[i]) ELSE segs[i].text])

\* Code whose language is to be guessed: lines with keywords of the four
\* categories, in either case, and one without any.
Codes ==
    {JoinLines(ls) : ls \in SeqsUpTo(
        {<<"$", "x", " ", "=", " ", "1">>,
         <<"G", "e", "t", "-", "P", "r", "o", "c", "e", "s", "s">>,
         <<"e", "c", "h", "o", " ", "h", "i">>,
         <<"G", "R", "E", "P", " ", "-", "r", " ", "f", "o", "o", " ", ".">>,
         <<"i", "m", "p", "o", "r", "t", " ", "o", "s">>,
         <<"p", "r", "i", "n", "t", "(", "1", ")">>,
         <<"c", "o", "n", "s", "t", " ", "a", " ", "=", " ", "1">>,
         <<"l", "s", " ", "-", "l", "a">>}, MaxLines)}

\* What self.current_shell can be.
Shells == {"bash", "zsh", "powershell"}

ExtractorFrame ==
    UNCHANGED <<history, disk, now, pc, command, task_description, shell_type,
                ai_chat_func, result, rawResult, gates, explains, explainShown,
                answer, goalAnswer, runnerCalls, ranCommand, addCalls, saved,
                presented, history0, disk0, origin, followAnswer, simOut>>

\* The calls of the extractors that a run can start with.
ExtractorCalls ==
    {[op |-> "call", of |-> "extract_clean_command", text |-> text] :
        text \in ResponseTexts}
    \cup {[op |-> "call", of |-> "extract_code_blocks", segments |-> segs,
           text |-> RenderSegments(segs)] : segs \in SeqsUpTo(Segments, MaxLines)}
    \cup {[op |-> "call", of |-> "detect_language", text |-> code, shell |-> shell] :
            code \in Codes, shell \in Shells}

\* extract_clean_command(text) returns; it is called again on the same text.
ExtractCommandCall ==
    /\ pc = "loaded"
    /\ exOut.op = "call" /\ exOut.of = "extract_clean_command"
    /\ exOut' = [op |-> "extract_clean_command", text |-> exOut.text,
                 value |-> ExtractCleanCommand(exOut.text),
                 again |-> ExtractCleanCommand(exOut.text)]
    /\ ExtractorFrame

\* extract_code_blocks(text) returns.
CodeBlocksCall ==
    /\ pc = "loaded"
    /\ exOut.op = "call" /\ exOut.of = "extract_code_blocks"
    /\ exOut' = [op |-> "extract_code_blocks", segments |-> exOut.segments,
                 text |-> exOut.text, value |-> ExtractCodeBlocks(exOut.text)]
    /\ ExtractorFrame

\* detect_language(code) returns to a shell whose current_shell is shell.
DetectLanguageCall ==
    /\ pc = "loaded"
    /\ exOut.op = "call" /\ exOut.of = "detect_language"
    /\ exOut' = [op |-> "detect_language", text |-> exOut.text, shell |-> exOut.shell,
                 value |-> DetectLanguage(exOut.text)]
    /\ ExtractorFrame

InitExtract == \E call \in ExtractorCalls : InitCalled(Missing, call)

NextExtract ==
    \/ ExtractCommandCall
    \/ CodeBlocksCall
    \/ DetectLanguageCall

SpecExtract == InitExtract /\ [][NextExtract]_vars

----------------------------------------------------------------------------
(* Properties of the text extractors *)

ExtractReturned == exOut.op = "extract_clean_command"
BlocksReturned == exOut.op = "extract_code_blocks"
DetectReturned == exOut.op = "detect_language"

\* A line passes the filters: no explanatory keyword, no final '.' or ':',
\* at most 200 characters and 25 tokens, no comment marker in front.
Survives(line) ==
    /\ \A p \in skip_patterns : ~Contains(LowerText(line), p)
    /\ line[Len(line)] \notin {".", ":"}
    /\ Len(line) <= MaxLineLen
    /\ WordCount(line) <= MaxLineWords
    /\ \A m \in CommentMarkers : ~StartsWith(line, m)

\* C21 as stated: extract_command gives the same value when called twice,
\* and when some line of the text, after the fences, backticks, bold spans
\* and list markers are stripped, survives the filters, the value is the
\* first such line, the earlier lines being skipped; the copy example gives
\* 'cp -r src dst'.
C21_FirstSurvivingLine ==
    ExtractReturned =>
        LET lines == CleanLines(exOut.text)
            S == {i \in 1..Len(lines) : Survives(lines[i])}
        IN /\ exOut.again = exOut.value
           /\ S # {} => exOut.value = lines[Least(S)]
           /\ exOut.text = CopyExample => exOut.value = <<"c", "p", " ", "-",
                                                    "r", " ", "s", "r",
                                                    "c", " ", "d", "s",
                                                    "t">>

\* C21, amended: extract_command gives the same value when called twice,
\* and when some line of the stripped text survives the filters and does not
\* start with 'the ', 'this ', 'that ', 'a ' or 'an ', the value is the
\* first such line with every '*', '_' and backquote removed and then
\* trimmed, the earlier lines being skipped; the copy example gives
\* 'cp -r src dst'.
C21_FirstAcceptedLineCleaned ==
    ExtractReturned =>
        LET lines == CleanLines(exOut.text)
            S == {i \in 1..Len(lines) :
                     Survives(lines[i]) /\ ~StartsLikeSentence(lines[i])}
        IN /\ exOut.again = exOut.value
           /\ S # {} => exOut.value = StripText(RemoveChars(lines[Least(S)],
                                                            {"*", "_", Backquote}))
           /\ exOut.text = CopyExample => exOut.value = <<"c", "p", " ", "-",
                                                    "r", " ", "s", "r",
                                                    "c", " ", "d", "s",
                                                    "t">>

C21_Witness ==
    /\ ExtractReturned
    /\ LET lines == CleanLines(exOut.text)
       IN /\ Len(lines) = 2
          /\ Survives(lines[1]) /\ StartsLikeSentence(lines[1])
          /\ Survives(lines[2]) /\ "_" \in Range(lines[2])
          /\ exOut.value = RemoveChars(lines[2], {"_"})

\* C22: extract_command returns the empty string only for a text that has
\* no non-empty line once the markdown is stripped.
C22_EmptyOnlyWithoutLines ==
    (ExtractReturned /\ exOut.value = <<>>) => CleanLines(exOut.text) = <<>>

\* The blocks of a response made of segs that extract_code_blocks is to
\* return: those whose trimmed body has more than 5 characters, in order,
\* each with its tag in lower case (None without a tag) and its trimmed body.
ExpectedBlocks(segs) ==
    LET kept == SelectSeq(segs, LAMBDA seg : seg.kind = "block"
                                             /\ Len(StripText(seg.body)) > 5)
    IN [i \in 1..Len(kept) |->
          [language |-> IF kept[i].tag = <<>> THEN NoneVal ELSE LowerText(kept[i].tag),
           code |-> StripText(kept[i].body)]]

\* C23: extract_code_blocks returns the fenced blocks of the text in source
\* order, leaving out exactly those whose trimmed body has 5 characters or
\* fewer, each with its language tag (None without one) and its trimmed
\* body; the python example gives one block and the 'hi' example none.
C23_BlocksInOrder ==
    BlocksReturned =>
        /\ exOut.value = ExpectedBlocks(exOut.segments)
        /\ exOut.text = <<Backquote, Backquote, Backquote, "p", "y", "t", "h",
                       "o", "n", "\n", "p", "r", "i", "n", "t", "(", "1",
                       ")", "\n", Backquote, Backquote, Backquote>>
              => exOut.value = <<[language |-> <<"p", "y", "t", "h", "o",
                                                 "n">>,
                                  code |-> <<"p", "r", "i", "n", "t", "(",
                                             "1", ")">>]>>
        /\ exOut.text = <<Backquote, Backquote, Backquote, "\n", "h", "i",
                       "\n", Backquote, Backquote, Backquote>>
              => exOut.value = <<>>

C23_Witness ==
    /\ BlocksReturned /\ Len(exOut.segments) = 2 /\ Len(exOut.value) = 1
    /\ exOut.segments[1].kind = "block" /\ Len(StripText(exOut.segments[1].body)) = 5
    /\ exOut.segments[2].kind = "block" /\ exOut.segments[2].tag = <<"B", "a", "s", "h">>
    /\ exOut.value[1].language = <<"b", "a", "s", "h">>

\* A keyword of the category lang occurs in the code, in either case.
KeywordOf(lang, code) ==
    \E i \in 1..Len(patterns) :
        patterns[i].lang = lang /\ \E k \in patterns[i].keywords : Contains(LowerText(code), k)

\* C24: for code without a keyword of any category detect_language returns
\* the caller's current shell.
C24_DefaultIsCurrentShell ==
    (/\ DetectReturned
     /\ \A lang \in {"powershell", "bash", "python", "javascript"} :
           ~KeywordOf(lang, exOut.text))
        => exOut.value = exOut.shell

\* C25: detect_language returns the first of powershell, bash, python,
\* javascript that has a keyword in the code, whatever keywords of later
\* categories the code holds.
C25_PriorityOrder ==
    DetectReturned =>
        LET code == exOut.text
        IN /\ KeywordOf("powershell", code) => exOut.value = "powershell"
           /\ (~KeywordOf("powershell", code) /\ KeywordOf("bash", code))
                 => exOut.value = "bash"
           /\ (~KeywordOf("powershell", code) /\ ~KeywordOf("bash", code)
               /\ KeywordOf("python", code)) => exOut.value = "python"
           /\ (~KeywordOf("powershell", code) /\ ~KeywordOf("bash", code)
               /\ ~KeywordOf("python", code) /\ KeywordOf("javascript", code))
                 => exOut.value = "javascript"

C25_Witness ==
    /\ DetectReturned
    /\ exOut.text = <<"c", "o", "n", "s", "t", " ", "a", " ", "=", " ", "1",
                   "\n", "G", "e", "t", "-", "P", "r", "o", "c", "e", "s",
                   "s">>
    /\ exOut.value = "powershell"

----------------------------------------------------------------------------
(* No gate without a command *)

\* C29: in a step of generate_oneliner in which extract_clean_command gives
\* the empty string for the AI's response, the gate is not entered: no
\* prompt is shown, the runner is not invoked and the history store is as it
\* was; and whenever the gate is entered, it is entered for a command that
\* is not empty.
C29_NoGateWithoutCommand ==
    /\ [][(/\ exOut' # exOut
           /\ exOut'.op = "generate_oneliner"
           /\ ExtractCleanCommand(exOut'.text) = <<>>)
             => UNCHANGED <<pc, gates, command, presented, answer, runnerCalls,
                            ranCommand, result, addCalls, history, disk>>]_vars
    /\ [][gates' = gates + 1 => command' # <<>> /\ presented'.command # <<>>]_vars

C29_Witness ==
    /\ exOut.op = "generate_oneliner" /\ exOut.text # <<>> /\ exOut.value = <<>>
    /\ pc = "idle" /\ gates = 0 /\ runnerCalls = 0 /\ history = history0

----------------------------------------------------------------------------
(* The gate as a state machine: every invocation ends *)

\* The operator answers the first prompt with y or n (or the default) and,
\* on y, the runner returns.
AnswerExecute ==
    \/ \E input \in ExecuteInputs, outcome \in OrchOutcomes, save \in OrchSaves :
          ChooseExecute(input, outcome, save)
    \/ \E input \in ExecuteInputs : ChooseCancel(input)

\* The operator answers the post-hoc prompt.
AnswerGoal == \E input \in GoalInputs, save \in OrchSaves : GoalPrompt(input, save)

NextGate ==
    \/ \E inv \in Invocations :
          Invoke(inv.command, inv.task_description, inv.shell_type, inv.ai_chat_func)
    \/ \E input \in ExecuteInputs, responder \in Responders :
          ChooseExplain(input, responder)
    \/ AnswerExecute
    \/ AnswerGoal
    \/ Return
    \/ Ready

\* Prompt.ask and subprocess.run block the one thread until the operator has
\* answered and the runner has returned: an invocation that waits at a
\* prompt goes on once the answer is there.
SpecGate == InitOrch /\ [][NextGate]_vars /\ WF_vars(AnswerExecute) /\ WF_vars(AnswerGoal)

\* The terminal classes a returned result belongs to.
TerminalClasses(r) ==
    {c \in {"CANCELLED", "SUCCESS_CONFIRMED", "SUCCESS_UNMET", "FAILURE"} :
        \/ c = "CANCELLED" /\ Get(r, "cancelled", FALSE)
        \/ c = "SUCCESS_CONFIRMED" /\ Get(r, "success", FALSE)
                                   /\ ~Get(r, "user_confirmed_failure", FALSE)
        \/ c = "SUCCESS_UNMET" /\ Get(r, "success", FALSE)
                               /\ Get(r, "user_confirmed_failure", FALSE)
        \/ c = "FAILURE" /\ IsFailure(r)}

\* C27: an invocation of the gate whose prompts are answered ends, and it
\* ends in exactly one of CANCELLED, SUCCESS_CONFIRMED, SUCCESS_UNMET and
\* FAILURE; from PRESENTED the gate stays at PRESENTED only by an explain
\* round, and otherwise goes on to the execution or returns cancelled; a
\* cancelled result comes from PRESENTED only, without a runner call; and
\* once the runner has been called the invocation neither returns cancelled
\* nor presents the command again.
C27_GateTerminatesInOneClass ==
    /\ (pc = "PRESENTED") ~> (pc = "returned")
    /\ [](pc = "returned" => Cardinality(TerminalClasses(result)) = 1)
    /\ [][pc = "PRESENTED" =>
            \/ pc' = "PRESENTED" /\ explains' = explains + 1 /\ IsExplain(answer')
                 /\ UNCHANGED <<command, result, runnerCalls, gates>>
            \/ pc' = "returned" /\ Get(result', "cancelled", FALSE) /\ runnerCalls' = 0
            \/ pc' \in {"ASK_GOAL", "returned"} /\ runnerCalls' = 1
                 /\ ~Get(result', "cancelled", FALSE)]_vars
    /\ [][(Get(result', "cancelled", FALSE) /\ result' # result)
             => pc = "PRESENTED" /\ runnerCalls' = 0]_vars
    /\ [][(runnerCalls > 0 /\ gates' = gates /\ pc # "returned")
             => /\ pc = "ASK_GOAL" /\ pc' = "returned"
                /\ ~Get(result', "cancelled", FALSE)
                /\ runnerCalls' = runnerCalls]_vars
    /\ []((runnerCalls > 0 /\ pc # "idle") => (pc \in {"ASK_GOAL", "returned"}
                                               /\ ~Get(result, "cancelled", FALSE)))

C27_Witness ==
    /\ pc = "returned" /\ explains > 0 /\ runnerCalls = 1
    /\ TerminalClasses(result) = {"SUCCESS_UNMET"}

====
